---- MODULE Spec2Model ----
(***************************************************************************)
(* Model of the SSTable codec of tektite (src/sst/sstable.go):             *)
(* BuildSSTable, SSTable.Serialize, SSTable.Deserialize and                *)
(* SSTable.findOffset.                                                     *)
(*                                                                         *)
(* Go's int/uint64 (64 bit) and uint32 values are kept at their width.     *)
(* TLC's integers are 32 bit, so a 64-bit quantity is a tuple of four      *)
(* base-65536 digits, least significant first ("wide" number).  A byte     *)
(* slice is a sequence of runs [b |-> byte, n |-> wide count]; an ordinary *)
(* byte is a run of one, and a value of about 4 GiB is a single run, so    *)
(* that buffers near the 32-bit offset limit are states of the model.      *)
(***************************************************************************)
EXTENDS Integers, Sequences, FiniteSets, TLC

(***************************************************************************)
(* Bounds of the model.                                                    *)
(***************************************************************************)
\* Longest iterator content (number of entries) given to BuildSSTable.
MaxEntries == 2
\* Longest iterator content of each of the two tables of a concatenated buffer.
MaxCatEntries == 1

(***************************************************************************)
(* 64-bit arithmetic on wide numbers.                                      *)
(***************************************************************************)
\* A Go int that fits 31 bits, as a wide number.
W(n) == <<n % 65536, n \div 65536, 0, 0>>

\* a + b, modulo 2^64.
WAdd(a, b) ==
  LET s1 == a[1] + b[1]
      s2 == a[2] + b[2] + (s1 \div 65536)
      s3 == a[3] + b[3] + (s2 \div 65536)
      s4 == a[4] + b[4] + (s3 \div 65536)
  IN  <<s1 % 65536, s2 % 65536, s3 % 65536, s4 % 65536>>

\* a - b, modulo 2^64.
WSub(a, b) ==
  LET d1 == a[1] - b[1]
      c1 == IF d1 < 0 THEN 1 ELSE 0
      d2 == a[2] - b[2] - c1
      c2 == IF d2 < 0 THEN 1 ELSE 0
      d3 == a[3] - b[3] - c2
      c3 == IF d3 < 0 THEN 1 ELSE 0
      d4 == a[4] - b[4] - c3
  IN  <<d1 % 65536, d2 % 65536, d3 % 65536, d4 % 65536>>

\* a < b, both unsigned.
WLess(a, b) ==
  \/ a[4] < b[4]
  \/ a[4] = b[4] /\ a[3] < b[3]
  \/ a[4] = b[4] /\ a[3] = b[3] /\ a[2] < b[2]
  \/ a[4] = b[4] /\ a[3] = b[3] /\ a[2] = b[2] /\ a[1] < b[1]

WLeq(a, b) == a = b \/ WLess(a, b)

\* a * k for a small non-negative k, modulo 2^64.
WMulInt(a, k) ==
  LET p1 == a[1] * k
      p2 == a[2] * k + (p1 \div 65536)
      p3 == a[3] * k + (p2 \div 65536)
      p4 == a[4] * k + (p3 \div 65536)
  IN  <<p1 % 65536, p2 % 65536, p3 % 65536, p4 % 65536>>

\* Whether a wide number fits a 31-bit integer, and that integer.
WIsSmall(a) == a[4] = 0 /\ a[3] = 0 /\ a[2] < 32768
WToInt(a) == a[1] + 65536 * a[2]

\* The conversion uint32(x) of a Go int: the low 32 bits.
ToUint32(a) == <<a[1], a[2], 0, 0>>

\* math.MaxUint32 and math.MaxUint64.
MaxUint32 == <<65535, 65535, 0, 0>>
MaxUint64 == <<65535, 65535, 65535, 65535>>
WZero == <<0, 0, 0, 0>>
WOne == <<1, 0, 0, 0>>

(***************************************************************************)
(* Byte slices.                                                            *)
(***************************************************************************)
\* A literal byte sequence as a slice.
Lit(bytes) == [i \in 1..Len(bytes) |-> [b |-> bytes[i], n |-> WOne]]

\* The sum of the run lengths buf[j].n over the indices j in S.
RECURSIVE WSum(_, _)
WSum(buf, S) ==
  IF S = {} THEN WZero
  ELSE LET j == CHOOSE k \in S : TRUE
       IN  WAdd(buf[j].n, WSum(buf, S \ {j}))

\* len(buf): the single bytes, plus the lengths of the longer runs.
BLen(buf) ==
  LET runs == {j \in 1..Len(buf) : buf[j].n # WOne}
  IN  WAdd(W(Len(buf) - Cardinality(runs)), WSum(buf, runs))

\* The index of the first run longer than one byte at or after run i;
\* Len(buf) + 1 when there is none.
NextRun(buf, i) ==
  LET runs == {j \in i..Len(buf) : buf[j].n # WOne}
  IN  IF runs = {} THEN Len(buf) + 1
      ELSE CHOOSE j \in runs : \A k \in runs : j <= k

\* Where byte pos lies, pos counted from the start of run i, the next longer
\* run being h: the index of its run and its position in that run; i = 0
\* when pos is outside the slice.
RECURSIVE BLocateFrom(_, _, _, _)
BLocateFrom(buf, i, pos, h) ==
  IF WLess(pos, W(h - i)) THEN [i |-> i + WToInt(pos), at |-> WZero]
  ELSE IF h > Len(buf) THEN [i |-> 0, at |-> WZero]
  ELSE IF WLess(WSub(pos, W(h - i)), buf[h].n)
       THEN [i |-> h, at |-> WSub(pos, W(h - i))]
       ELSE BLocateFrom(buf, h + 1, WSub(WSub(pos, W(h - i)), buf[h].n),
                        NextRun(buf, h + 1))
BLocate(buf, pos) == BLocateFrom(buf, 1, pos, NextRun(buf, 1))

\* The byte at a place BLocate found; -1 when the place is outside the slice.
ByteAtPlace(buf, place) == IF place.i = 0 THEN -1 ELSE buf[place.i].b

\* buf[pos] for 0 <= pos < len(buf); -1 when pos is outside the slice.
BAt(buf, pos) == ByteAtPlace(buf, BLocate(buf, pos))

\* buf[pos : pos+k] as a plain byte sequence (k small); -1 marks a
\* position outside the slice.
BRead(buf, pos, k) == [i \in 1..k |-> BAt(buf, WAdd(pos, W(i - 1)))]

\* The runs of buf before a place.
TakeToPlace(buf, place) ==
  IF place.i = 0 THEN buf
  ELSE SubSeq(buf, 1, place.i - 1)
         \o (IF place.at = WZero THEN <<>>
             ELSE <<[b |-> buf[place.i].b, n |-> place.at]>>)

\* The runs of buf from a place on.
DropToPlace(buf, place) ==
  IF place.i = 0 THEN <<>>
  ELSE <<[b |-> buf[place.i].b, n |-> WSub(buf[place.i].n, place.at)]>>
         \o SubSeq(buf, place.i + 1, Len(buf))

\* buf[:n] for n <= len(buf).
BTake(buf, n) == TakeToPlace(buf, BLocate(buf, n))

\* buf[n:] for n <= len(buf).
BDrop(buf, n) == DropToPlace(buf, BLocate(buf, n))

\* buf with buf[pos] = byte, for 0 <= pos < len(buf).
BSet(buf, pos, byte) ==
  BTake(buf, pos) \o <<[b |-> byte, n |-> WOne]>> \o BDrop(buf, WAdd(pos, WOne))

\* y holds byte b at every position from..to.
HoldsAlong(y, from, to, b) ==
  \A j \in BLocate(y, from).i .. BLocate(y, to).i : y[j].b = b

\* x and y hold the same bytes: they are as long, and y holds x[i].b all
\* along the stretch each run x[i] covers.
BEq(x, y) ==
  /\ BLen(x) = BLen(y)
  /\ \A i \in 1..Len(x) :
       HoldsAlong(y, BLen(SubSeq(x, 1, i - 1)),
                  WSub(BLen(SubSeq(x, 1, i)), WOne), x[i].b)

\* bytes.Compare(x, y) < 0 on plain byte sequences.
RECURSIVE BytesLess(_, _)
BytesLess(x, y) ==
  IF y = <<>> THEN FALSE
  ELSE IF x = <<>> THEN TRUE
  ELSE IF x[1] # y[1] THEN x[1] < y[1]
  ELSE BytesLess(Tail(x), Tail(y))

(***************************************************************************)
(* Little-endian helpers of package encoding.                              *)
(***************************************************************************)
\* The four little-endian bytes of a uint32.
LE32(v) == <<v[1] % 256, v[1] \div 256, v[2] % 256, v[2] \div 256>>
\* The eight little-endian bytes of a uint64.
LE64(v) == LE32(v) \o <<v[3] % 256, v[3] \div 256, v[4] % 256, v[4] \div 256>>

\* encoding.AppendUint32ToBufferLE and encoding.AppendUint64ToBufferLE.
AppendUint32ToBufferLE(buff, v) == buff \o Lit(LE32(v))
AppendUint64ToBufferLE(buff, v) == buff \o Lit(LE64(v))

\* The uint32/uint64 that little-endian bytes spell.
FromLE32(bs) == <<bs[1] + 256 * bs[2], bs[3] + 256 * bs[4], 0, 0>>
FromLE64(bs) == <<bs[1] + 256 * bs[2], bs[3] + 256 * bs[4],
                  bs[5] + 256 * bs[6], bs[7] + 256 * bs[8]>>
\* binary.BigEndian.Uint64.
FromBE64(bs) == <<bs[8] + 256 * bs[7], bs[6] + 256 * bs[5],
                  bs[4] + 256 * bs[3], bs[2] + 256 * bs[1]>>

(***************************************************************************)
(* The inputs: keys, values, iterator contents.                            *)
(***************************************************************************)
\* The 8-byte version suffix of a key: MaxUint64 - version, big-endian
\* (versions below 256).
VersionSuffix(version) == <<255, 255, 255, 255, 255, 255, 255, 255 - version>>

VersionSet == {0, 255}
PrefixSet == {<<>>, <<1>>, <<255>>}
\* Keys carrying a version suffix; <<255,...,255>> and <<255,...,255,0>> are
\* both keys, the second being the first followed by a zero byte.
VersionedKeys == {p \o VersionSuffix(v) : p \in PrefixSet, v \in VersionSet}
\* A key shorter than a version suffix.
ShortKeys == {<<1>>}
\* The key whose suffix is eight zero bytes: its version is math.MaxUint64,
\* the value minVersion starts from.
OldestKeys == {<<0, 0, 0, 0, 0, 0, 0, 0>>}
KeySet == VersionedKeys \cup ShortKeys \cup OldestKeys

\* A value of 2^32 - 34 zero bytes: with one 8-byte key the encoded table
\* is exactly math.MaxUint32 bytes long.
HugeValue == <<[b |-> 0, n |-> <<65502, 65535, 0, 0>>]>>
ValueSet == {<<>>, Lit(<<7>>), HugeValue}

EntrySet == [Key : KeySet, Value : ValueSet]

RECURSIVE SeqsUpTo(_, _)
SeqsUpTo(S, n) ==
  IF n = 0 THEN {<<>>}
  ELSE LET shorter == SeqsUpTo(S, n - 1)
       IN  shorter \cup {Append(q, x) : q \in {r \in shorter : Len(r) = n - 1}, x \in S}

\* Values of buffSizeEstimate.  An 8-byte key, a 9-byte key and their values
\* of 0 or 1 bytes take 38 to 40 bytes, and the first index record's key and
\* padding the next 9: 47 bytes hold the padding or the key alone or neither,
\* 39 bytes do not hold the entries with two 1-byte values.
EstimateSet == {39, 47}
\* common.DataFormat tags.
FormatSet == {1, 2}
\* Values of time.Now().UTC().UnixMilli().
TimeSet == {<<4660, 22136, 396, 0>>, <<65535, 1, 397, 0>>}
\* Errors an iterator reports.
IterErrors == {"EIO", "EUNAVAILABLE"}

VARIABLES
  pc,       \* where the caller stands: see the actions
  iter,     \* the source iterator: [entries, pos, calls, err]
  format,   \* BuildSSTable's format argument
  build,    \* BuildSSTable's local variables
  ret,      \* what BuildSSTable returned
  ser,      \* the bytes Serialize returned
  dec,      \* the outcome of the last Deserialize
  look,     \* the last findOffset call: [key, off]
  cat       \* a buffer holding two serialized tables: [first, buf, n1]

vars == <<pc, iter, format, build, ret, ser, dec, look, cat>>

(***************************************************************************)
(* The iterator (iteration.Iterator).                                      *)
(***************************************************************************)
\* IsValid() without an error: whether an entry is current.
IsValid(it) == it.pos <= Len(it.entries)
\* Current().
Current(it) == it.entries[it.pos]
\* The iterator after one more call that reported err and advanced it by
\* `by` entries.
Called(it, by, err) == [it EXCEPT !.pos = @ + by, !.calls = @ + 1, !.err = err]

(***************************************************************************)
(* BuildSSTable.                                                           *)
(***************************************************************************)
NilKey == <<>>
NoTable == <<>>

\* cap(buff).  A slice keeps its capacity while what is appended fits; when
\* it does not, append moves the bytes to an array of a capacity the code
\* does not determine (known = FALSE).
MadeCap(buffSizeEstimate) == [known |-> TRUE, n |-> W(buffSizeEstimate)]
AppendCap(cap, newLen) ==
  IF cap.known /\ WLeq(newLen, cap.n) THEN cap ELSE [known |-> FALSE, n |-> WZero]

\* The locals of BuildSSTable before the loop (lines 34-49).
BuildStart(fmt, buffSizeEstimate) ==
  [ buff         |-> Lit(<<fmt, 0, 0, 0, 0>>),
    cap          |-> AppendCap(MadeCap(buffSizeEstimate), W(5)),
    indexEntries |-> <<>>,
    maxVersion   |-> WZero,
    minVersion   |-> MaxUint64,
    maxKeyLength |-> 0,
    numEntries   |-> 0,
    numDeletes   |-> 0,
    first        |-> TRUE,
    prevKey      |-> NilKey,
    smallestKey  |-> NilKey,
    largestKey   |-> NilKey ]

\* appendBytesWithLengthPrefix, for a slice of bytes.
appendBytesWithLengthPrefix(buff, bytes) ==
  AppendUint32ToBufferLE(buff, ToUint32(BLen(bytes))) \o bytes

\* The sanity check with > 0 for >= 0: equal keys pass.
KeysOutOfOrderStrict(prevKey, key) == prevKey # NilKey /\ BytesLess(key, prevKey)

\* The sanity check of line 60: the key is not above the previous one.
KeysOutOfOrder(prevKey, key) == prevKey # NilKey /\ ~BytesLess(prevKey, key)

\* The slice kv.Key[len(kv.Key)-8:] of line 84 is out of range.
VersionOutOfRange(key) == Len(key) < 8

\* The version taken from the first eight bytes of the key.
VersionOfFirstEight(key) ==
  WSub(MaxUint64, FromBE64(SubSeq(key, 1, 8)))

\* math.MaxUint64 - binary.BigEndian.Uint64(key[len(key)-8:]).
VersionOf(key) ==
  WSub(MaxUint64, FromBE64(SubSeq(key, Len(key) - 7, Len(key))))

\* The delete test inverted: entries with a value are counted.
IsDeleteInverted(value) == BLen(value) # WZero

\* The test of line 80: len(kv.Value) == 0.
IsDelete(value) == BLen(value) = WZero

\* One pass of the loop body, lines 63-90, on locals l and entry kv.
LoopBody(l, kv) ==
  LET offset  == ToUint32(BLen(l.buff))
      lk      == Len(kv.Key)
      buff1   == appendBytesWithLengthPrefix(l.buff, Lit(kv.Key))
      buff2   == appendBytesWithLengthPrefix(buff1, kv.Value)
      version == VersionOf(kv.Key)
  IN  [ l EXCEPT
          !.prevKey      = kv.Key,
          !.smallestKey  = IF l.first THEN kv.Key ELSE @,
          !.first        = FALSE,
          !.maxKeyLength = IF lk > @ THEN lk ELSE @,
          !.buff         = buff2,
          !.cap          = AppendCap(@, BLen(buff2)),
          !.indexEntries = Append(@, [key |-> kv.Key, offset |-> offset]),
          !.numEntries   = @ + 1,
          !.numDeletes   = IF IsDelete(kv.Value) THEN @ + 1 ELSE @,
          !.largestKey   = kv.Key,
          !.maxVersion   = IF WLess(@, version) THEN version ELSE @,
          !.minVersion   = IF WLess(version, @) THEN version ELSE @ ]

\* The padding with the re-slice of line 105 showing bytes that are not zero.
PadKeyStale(buff, paddingBytes, fits) ==
  IF paddingBytes > 0
  THEN IF fits THEN buff \o Lit([i \in 1..paddingBytes |-> 255])
       ELSE buff \o Lit([i \in 1..paddingBytes |-> 0])
  ELSE buff

\* The padding of lines 101-109, fits being the test of line 103.  The
\* re-slice of line 105 shows paddingBytes bytes of the spare capacity: they
\* are zero, for the array was handed out zeroed by make (line 37) or by
\* append and the code writes nothing past len(buff).  Line 107 appends
\* paddingBytes zero bytes.
PadKey(buff, paddingBytes, fits) ==
  IF paddingBytes > 0
  THEN IF fits THEN buff \o Lit([i \in 1..paddingBytes |-> 0])
       ELSE buff \o Lit([i \in 1..paddingBytes |-> 0])
  ELSE buff

\* The test of line 103, len(buff)+paddingBytes <= cap(buff), for entry i,
\* keyedLen being len(buff) after line 100 and cap the capacity at line 97:
\* decided by cap while the buffer has not outgrown it, and otherwise by the
\* capacity append chose (i \in resliced: the padding fits).
FitsCap(cap, keyedLen, paddingBytes, i, resliced) ==
  IF cap.known /\ WLeq(keyedLen, cap.n)
  THEN WLeq(WAdd(keyedLen, W(paddingBytes)), cap.n)
  ELSE i \in resliced

\* Lines 100-110 for entry i, keyed being the buffer after line 100.
AppendIndexEntry(keyed, entry, maxKeyLength, cap, i, resliced) ==
  AppendUint32ToBufferLE(
    PadKey(keyed, maxKeyLength - Len(entry.key),
           FitsCap(cap, BLen(keyed), maxKeyLength - Len(entry.key), i, resliced)),
    entry.offset)

\* The index loop, lines 99-111, from entry i on.
RECURSIVE AppendIndex(_, _, _, _, _, _)
AppendIndex(buff, indexEntries, maxKeyLength, i, cap, resliced) ==
  IF i > Len(indexEntries) THEN buff
  ELSE AppendIndex(AppendIndexEntry(buff \o Lit(indexEntries[i].key), indexEntries[i],
                                    maxKeyLength, cap, i, resliced),
                   indexEntries, maxKeyLength, i + 1, cap, resliced)

\* The entries whose index key is padded.
PaddedEntries(l) ==
  {i \in 1..Len(l.indexEntries) : Len(l.indexEntries[i].key) < l.maxKeyLength}

\* The size check made on the offset converted to uint32: never true.
TooBigTruncated(metadataOffset) == WLess(MaxUint32, ToUint32(metadataOffset))

\* The size check of line 115.
TooBig(metadataOffset) == WLess(MaxUint32, metadataOffset)

\* The header pointer written most significant byte first.
FillMetadataOffsetBE(buff, metadataOffset) ==
  BSet(BSet(BSet(BSet(buff, W(1), LE32(ToUint32(metadataOffset))[4]),
                 W(2), LE32(ToUint32(metadataOffset))[3]),
            W(3), LE32(ToUint32(metadataOffset))[2]),
       W(4), LE32(ToUint32(metadataOffset))[1])

\* Lines 118-121: the header pointer.
FillMetadataOffset(buff, metadataOffset) ==
  LET bs == LE32(ToUint32(metadataOffset))
  IN  BSet(BSet(BSet(BSet(buff, W(1), bs[1]), W(2), bs[2]), W(3), bs[3]), W(4), bs[4])

\* An error return that replaces the error by one of its own.
ErrReturnOwnError(err) ==
  [ table |-> NoTable, smallestKey |-> NilKey, largestKey |-> NilKey,
    minVersion |-> WZero, maxVersion |-> WZero, err |-> "build failed" ]

\* What BuildSSTable returns on an error.
ErrReturn(err) ==
  [ table |-> NoTable, smallestKey |-> NilKey, largestKey |-> NilKey,
    minVersion |-> WZero, maxVersion |-> WZero, err |-> err ]

\* Lines 113-132: the size check, the header pointer and the result, buff
\* being the buffer with its index region.
BuildResult(fmt, l, now, buff) ==
  IF TooBig(BLen(buff)) THEN ErrReturn("SSTable too big")
  ELSE [ table |-> << [ format       |-> fmt,
                        maxKeyLength |-> ToUint32(W(l.maxKeyLength)),
                        numEntries   |-> ToUint32(W(l.numEntries)),
                        numDeletes   |-> ToUint32(W(l.numDeletes)),
                        indexOffset  |-> ToUint32(BLen(l.buff)),
                        creationTime |-> now,
                        data         |-> FillMetadataOffset(buff, BLen(buff)) ] >>,
         smallestKey |-> l.smallestKey,
         largestKey  |-> l.largestKey,
         minVersion  |-> l.minVersion,
         maxVersion  |-> l.maxVersion,
         err         |-> "nil" ]

\* Lines 97-132: the index region, then the result.
BuildReturn(fmt, l, now, resliced) ==
  BuildResult(fmt, l, now,
              AppendIndex(l.buff, l.indexEntries, l.maxKeyLength, 1, l.cap, resliced))

(***************************************************************************)
(* Serialize and Deserialize.                                              *)
(***************************************************************************)
\* Serialize with numDeletes written before numEntries.
SerializeSwapped(s) ==
  AppendUint64ToBufferLE(
    AppendUint32ToBufferLE(
      AppendUint32ToBufferLE(
        AppendUint32ToBufferLE(
          AppendUint32ToBufferLE(s.data, s.maxKeyLength), s.numDeletes),
        s.numEntries),
      s.indexOffset),
    s.creationTime)

\* SSTable.Serialize: the data followed by the 24-byte footer.
Serialize(s) ==
  LET b1 == AppendUint32ToBufferLE(s.data, s.maxKeyLength)
      b2 == AppendUint32ToBufferLE(b1, s.numEntries)
      b3 == AppendUint32ToBufferLE(b2, s.numDeletes)
      b4 == AppendUint32ToBufferLE(b3, s.indexOffset)
  IN  AppendUint64ToBufferLE(b4, s.creationTime)

\* How a read helper treats bytes outside the slice: -1 is a panic, a byte
\* value is what a read past the end finds there.
OobModes == {-1, 0, 255}

\* What a read helper makes of the bytes raw (-1: outside the slice).
ReadResult(raw, offset, mode) ==
  [ panic |-> mode = -1 /\ \E i \in DOMAIN raw : raw[i] = -1,
    oob   |-> \E i \in DOMAIN raw : raw[i] = -1,
    v     |-> IF Len(raw) = 4
              THEN FromLE32([i \in DOMAIN raw |-> IF raw[i] # -1 THEN raw[i]
                                                 ELSE IF mode = -1 THEN 0 ELSE mode])
              ELSE FromLE64([i \in DOMAIN raw |-> IF raw[i] # -1 THEN raw[i]
                                                 ELSE IF mode = -1 THEN 0 ELSE mode]),
    next  |-> WAdd(offset, W(Len(raw))) ]

\* encoding.ReadUint32FromBufferLE (size 4) and ReadUint64FromBufferLE
\* (size 8): the value at offset and the offset after it.
ReadFromBufferLE(buffer, offset, size, mode) ==
  ReadResult(BRead(buffer, offset, size), offset, mode)

\* An SSTable value before Deserialize fills it.
ZeroTable ==
  [ format |-> 0, maxKeyLength |-> WZero, numEntries |-> WZero, numDeletes |-> WZero,
    indexOffset |-> WZero, creationTime |-> WZero, data |-> <<>> ]

FooterFields == <<"maxKeyLength", "numEntries", "numDeletes", "indexOffset", "creationTime">>

\* One of lines 150-154: field i is assigned what the read r found, unless
\* the read panicked.
FooterField(st, r, i) ==
  IF r.panic
  THEN [st EXCEPT !.panic = TRUE, !.oob = TRUE]
  ELSE [ s      |-> [st.s EXCEPT ![FooterFields[i]] = r.v],
         offset |-> r.next,
         oob    |-> st.oob \/ r.oob,
         panic  |-> FALSE ]

\* Lines 150-154: the footer fields, read one after the other from st.offset;
\* a panic leaves the fields read so far.
RECURSIVE ReadFooter(_, _, _, _)
ReadFooter(st, buff, mode, i) ==
  IF st.panic \/ i > Len(FooterFields) THEN st
  ELSE ReadFooter(
         FooterField(st,
                     ReadFromBufferLE(buff, st.offset,
                                      IF FooterFields[i] = "creationTime" THEN 8 ELSE 4,
                                      mode),
                     i),
         buff, mode, i + 1)

\* Lines 155-156, st being the state after the footer reads.
DeserializeEnd(st, buff) ==
  IF st.panic \/ WLess(BLen(buff), W(24))
  THEN [outcome |-> "panic", oob |-> st.oob, s |-> st.s, ret |-> WZero]
  ELSE [ outcome |-> "ok",
         oob     |-> st.oob,
         s       |-> [st.s EXCEPT !.data = BTake(buff, WSub(BLen(buff), W(24)))],
         ret     |-> st.offset ]

\* Lines 149-156, r0 being the read of the header pointer (line 148).
DeserializeFooter(s, r0, buff, mode) ==
  IF r0.panic
  THEN [outcome |-> "panic", oob |-> TRUE, s |-> s, ret |-> WZero]
  ELSE DeserializeEnd(
         ReadFooter([s |-> s, offset |-> r0.v, oob |-> r0.oob, panic |-> FALSE],
                    buff, mode, 1),
         buff)

\* SSTable.Deserialize(buff, offset) on receiver s: the receiver afterwards,
\* the offset returned, whether it panicked and whether a read went outside
\* the slice.
Deserialize(s, buff, offset, mode) ==
  IF ~WLess(offset, BLen(buff))
  THEN [outcome |-> "panic", oob |-> FALSE, s |-> s, ret |-> WZero]
  ELSE DeserializeFooter([s EXCEPT !.format = BAt(buff, offset)],
                         ReadFromBufferLE(buff, WAdd(offset, WOne), 4, mode),
                         buff, mode)

(***************************************************************************)
(* findOffset.                                                             *)
(***************************************************************************)
\* i*indexRecordLen + indexOffset of lines 197, 206 and 213 (i may be -1).
RecordStart(s, i) ==
  LET indexRecordLen == WToInt(s.maxKeyLength) + 4
  IN  IF i >= 0 THEN WAdd(WMulInt(W(indexRecordLen), i), s.indexOffset)
      ELSE WSub(s.indexOffset, W((-i) * indexRecordLen))

\* s.data[recordStart : recordStart+maxKeyLength]; bytes outside the slice
\* read as -1.
IndexKey(s, i) == BRead(s.data, RecordStart(s, i), WToInt(s.maxKeyLength))

\* The binary search with the comparison of line 199 inverted.
RECURSIVE SearchLoopInverted(_, _, _, _)
SearchLoopInverted(s, key, low, high) ==
  IF low < high
  THEN IF ~BytesLess(IndexKey(s, low + (high - low) \div 2), key)
       THEN SearchLoopInverted(s, key, low + (high - low) \div 2 + 1, high)
       ELSE SearchLoopInverted(s, key, low, low + (high - low) \div 2)
  ELSE high

\* The binary search loop, lines 195-204: the final value of high.
RECURSIVE SearchLoop(_, _, _, _)
SearchLoop(s, key, low, high) ==
  IF low < high
  THEN IF BytesLess(IndexKey(s, low + (high - low) \div 2), key)
       THEN SearchLoop(s, key, low + (high - low) \div 2 + 1, high)
       ELSE SearchLoop(s, key, low, low + (high - low) \div 2)
  ELSE high

\* The offset field of lines 215-216, from its four bytes.
OffsetField(offBytes) ==
  IF \E i \in 1..4 : offBytes[i] = -1
  THEN [kind |-> "fault", off |-> WZero]
  ELSE [kind |-> "off", off |-> FromLE32(offBytes)]

\* Lines 205-216, high being the index the search ended on.
ResolveOffset(s, key, high) ==
  IF high = WToInt(s.numEntries) - 1 /\ BytesLess(IndexKey(s, high), key)
  THEN [kind |-> "minus1", off |-> WZero]
  ELSE OffsetField(BRead(s.data,
                         WAdd(RecordStart(s, high), W(WToInt(s.maxKeyLength))), 4))

\* SSTable.findOffset: kind "minus1" is the result -1, kind "off" the
\* result int(off), kind "fault" an access outside s.data.
findOffset(s, key) ==
  ResolveOffset(s, key, SearchLoop(s, key, 0, WToInt(s.numEntries) - 1))

\* Keys looked up: every key of the inputs, the empty key, a key below and a
\* key above all of them.
LookupKeys ==
  KeySet \cup {<<>>, <<0>>, <<255, 255, 255, 255, 255, 255, 255, 255, 255, 255>>}

(***************************************************************************)
(* The state machine.                                                      *)
(***************************************************************************)
NotReturned == ErrReturn("not returned")
NoDec == [outcome |-> "none", oob |-> FALSE, s |-> ZeroTable, ret |-> WZero,
          buf |-> <<>>, start |-> WZero]
NoLook == [key |-> <<>>, kind |-> "none", off |-> WZero]
NoCat == [first |-> <<>>, buf |-> <<>>, n1 |-> WZero]

\* The two panics of BuildSSTable: line 61, and the slice expression of line 84.
PanicOrder == "panic: keys not in order / contains duplicates"
PanicRange == "panic: slice bounds out of range"

\* A caller about to run BuildSSTable(fmt, _, _, iterator over entries).
StartIter(entries) == [entries |-> entries, pos |-> 1, calls |-> 0, err |-> "nil"]

Init ==
  /\ \E entries \in SeqsUpTo(EntrySet, MaxEntries), fmt \in FormatSet,
        est \in EstimateSet :
       /\ iter = StartIter(entries)
       /\ format = fmt
       /\ build = BuildStart(fmt, est)
  /\ pc = "loop"
  /\ ret = NotReturned
  /\ ser = <<>>
  /\ dec = NoDec
  /\ look = NoLook
  /\ cat = NoCat

\* Line 51-54: iter.IsValid() reports an error; BuildSSTable returns it.
IsValidFails(e) ==
  /\ pc = "loop"
  /\ iter' = Called(iter, 0, e)
  /\ ret' = ErrReturn(e)
  /\ pc' = "failed"
  /\ UNCHANGED <<format, build, ser, dec, look, cat>>

\* Lines 51-95: one pass of the loop on a valid iterator; nx is what
\* iter.Next() reports.
LoopStep(nx) ==
  /\ pc = "loop"
  /\ IsValid(iter)
  /\ LET kv == Current(iter)
     IN  IF KeysOutOfOrder(build.prevKey, kv.Key)
         THEN /\ pc' = PanicOrder
              /\ iter' = Called(iter, 0, "nil")
              /\ UNCHANGED <<build, ret>>
         ELSE IF VersionOutOfRange(kv.Key)
         THEN /\ pc' = PanicRange
              /\ iter' = Called(iter, 0, "nil")
              /\ UNCHANGED <<build, ret>>
         ELSE /\ build' = LoopBody(build, kv)
              /\ IF nx = "nil"
                 THEN /\ iter' = Called(Called(iter, 0, "nil"), 1, "nil")
                      /\ pc' = "loop"
                      /\ UNCHANGED ret
                 ELSE /\ iter' = Called(Called(iter, 0, "nil"), 0, nx)
                      /\ pc' = "failed"
                      /\ ret' = ErrReturn(nx)
  /\ UNCHANGED <<format, ser, dec, look, cat>>

\* Lines 55-57 and 97-132: the iterator is exhausted; the index region is
\* written and BuildSSTable returns.
LoopExit(now, resliced) ==
  /\ pc = "loop"
  /\ ~IsValid(iter)
  /\ resliced \subseteq PaddedEntries(build)
  /\ iter' = Called(iter, 0, "nil")
  /\ ret' = BuildReturn(format, build, now, resliced)
  /\ pc' = IF ret'.err = "nil" THEN "built" ELSE "failed"
  /\ UNCHANGED <<format, build, ser, dec, look, cat>>

\* findOffset(key) on the built table.
FindOffsetCall(key) ==
  /\ pc = "built"
  /\ look' = [key |-> key] @@ findOffset(ret.table[1], key)
  /\ UNCHANGED <<pc, iter, format, build, ret, ser, dec, cat>>

\* Serialize() on the built table.
SerializeCall ==
  /\ pc = "built"
  /\ ser' = Serialize(ret.table[1])
  /\ look' = NoLook
  /\ pc' = "serialized"
  /\ UNCHANGED <<iter, format, build, ret, dec, cat>>

\* Deserialize(buf, start) on a fresh SSTable.
Decoded(buf, start, mode) ==
  [buf |-> buf, start |-> start] @@ Deserialize(ZeroTable, buf, start, mode)

\* Deserialize(ser, 0).
DeserializeCall(mode) ==
  /\ pc = "serialized"
  /\ dec' = Decoded(ser, WZero, mode)
  /\ pc' = "decoded"
  /\ UNCHANGED <<iter, format, build, ret, ser, look, cat>>

\* Deserialize on the serialized bytes without their last byte.
DeserializeTruncated(mode) ==
  /\ pc = "serialized"
  /\ dec' = Decoded(BTake(ser, WSub(BLen(ser), WOne)), WZero, mode)
  /\ pc' = "decoded truncated"
  /\ UNCHANGED <<iter, format, build, ret, ser, look, cat>>

(***************************************************************************)
(* Two serialized tables in one buffer.                                    *)
(***************************************************************************)
\* The caller keeps the serialized table and builds a second one.
KeepFirst(entries, fmt, est) ==
  /\ pc = "serialized"
  /\ cat.first = <<>>
  /\ cat' = [cat EXCEPT !.first = ser]
  /\ iter' = StartIter(entries)
  /\ format' = fmt
  /\ build' = BuildStart(fmt, est)
  /\ pc' = "loop"
  /\ ret' = NotReturned
  /\ ser' = <<>>
  /\ UNCHANGED <<dec, look>>

\* The caller puts the second serialized table behind the first.
Concat ==
  /\ pc = "serialized"
  /\ cat.first # <<>>
  /\ cat' = [cat EXCEPT !.buf = cat.first \o ser]
  /\ pc' = "concatenated"
  /\ UNCHANGED <<iter, format, build, ret, ser, dec, look>>

\* Deserialize(buf, 0) on the buffer of two tables.
DeserializeFirst(mode) ==
  /\ pc = "concatenated"
  /\ dec' = Decoded(cat.buf, WZero, mode)
  /\ cat' = [cat EXCEPT !.n1 = dec'.ret]
  /\ pc' = "decoded first"
  /\ UNCHANGED <<iter, format, build, ret, ser, look>>

\* Deserialize(buf, n1), n1 being the offset the first call returned.
DeserializeSecond(mode) ==
  /\ pc = "decoded first"
  /\ dec.outcome = "ok"
  /\ dec' = Decoded(cat.buf, cat.n1, mode)
  /\ pc' = "decoded second"
  /\ UNCHANGED <<iter, format, build, ret, ser, look, cat>>

Next ==
  \/ \E e \in IterErrors : IsValidFails(e)
  \/ \E nx \in IterErrors \cup {"nil"} : LoopStep(nx)
  \/ \E now \in TimeSet, resliced \in SUBSET (1..MaxEntries) : LoopExit(now, resliced)
  \/ \E key \in LookupKeys : FindOffsetCall(key)
  \/ SerializeCall
  \/ \E mode \in OobModes : DeserializeCall(mode)
  \/ \E mode \in OobModes : DeserializeTruncated(mode)

Spec == Init /\ [][Next]_vars

InitCat ==
  /\ \E entries \in SeqsUpTo(EntrySet, MaxCatEntries), fmt \in FormatSet,
        est \in EstimateSet :
       /\ iter = StartIter(entries)
       /\ format = fmt
       /\ build = BuildStart(fmt, est)
  /\ pc = "loop"
  /\ ret = NotReturned
  /\ ser = <<>>
  /\ dec = NoDec
  /\ look = NoLook
  /\ cat = NoCat

NextCat ==
  \/ \E e \in IterErrors : IsValidFails(e)
  \/ \E nx \in IterErrors \cup {"nil"} : LoopStep(nx)
  \/ \E now \in TimeSet, resliced \in SUBSET (1..MaxEntries) : LoopExit(now, resliced)
  \/ SerializeCall
  \/ \E entries \in SeqsUpTo(EntrySet, MaxCatEntries), fmt \in FormatSet,
          est \in EstimateSet :
       KeepFirst(entries, fmt, est)
  \/ Concat
  \/ \E mode \in OobModes : DeserializeFirst(mode)
  \/ \E mode \in OobModes : DeserializeSecond(mode)

SpecCat == InitCat /\ [][NextCat]_vars

(***************************************************************************)
(* What the claims speak of.                                               *)
(***************************************************************************)
\* The table BuildSSTable returned, and the keys it was built from.
Returned == ret.table # NoTable
Table == ret.table[1]
StoredKeys == {iter.entries[i].Key : i \in 1..Len(iter.entries)}

\* The length-prefixed key stored at data[off].
KeyOfLength(data, off, lk) ==
  IF WIsSmall(lk) /\ WToInt(lk) <= 16 THEN BRead(data, WAdd(off, W(4)), WToInt(lk))
  ELSE <<-1>>
KeyAt(data, off) == KeyOfLength(data, off, FromLE32(BRead(data, off, 4)))

\* A findOffset call was made on the built table.
LookedUp == pc = "built" /\ look.kind # "none"

\* The byte position of entry i's record, from the entries themselves: the
\* 5-byte header and, for each entry before it, two length prefixes, the key
\* and the value.
RECURSIVE TrueStart(_, _)
TrueStart(entries, i) ==
  IF i <= 1 THEN W(5)
  ELSE WAdd(TrueStart(entries, i - 1),
            WAdd(W(8 + Len(entries[i - 1].Key)), BLen(entries[i - 1].Value)))

LongestKey(entries) ==
  IF entries = <<>> THEN 0
  ELSE CHOOSE n \in {Len(entries[i].Key) : i \in 1..Len(entries)} :
         \A i \in 1..Len(entries) : Len(entries[i].Key) <= n

\* The total encoded size: header, entries region, index region.
TrueSize(entries) ==
  WAdd(TrueStart(entries, Len(entries) + 1),
       W(Len(entries) * (LongestKey(entries) + 4)))

\* The offset field of index record i (from 1) of table s.
IndexOffsetField(s, i) ==
  FromLE32(BRead(s.data, WAdd(RecordStart(s, i - 1), W(WToInt(s.maxKeyLength))), 4))

\* The header pointer: bytes [1..5) of the data, little-endian.
HeaderPointer(s) == FromLE32(BRead(s.data, W(1), 4))

\* Entry i of the iterator is not above entry i-1.
OutOfOrderAt(entries, i) ==
  i > 1 /\ ~BytesLess(entries[i - 1].Key, entries[i].Key)

(***************************************************************************)
(* The claims.                                                             *)
(***************************************************************************)
\* C1: Deserialize(Serialize(t), 0) of a built table t gives a table with t's
\* format, numEntries, numDeletes, maxKeyLength, indexOffset and
\* creationTime, and with the same data bytes.
C1_RoundTrip ==
  pc = "decoded" =>
    /\ dec.outcome = "ok"
    /\ ~dec.oob
    /\ dec.s.format = Table.format
    /\ dec.s.numEntries = Table.numEntries
    /\ dec.s.numDeletes = Table.numDeletes
    /\ dec.s.maxKeyLength = Table.maxKeyLength
    /\ dec.s.indexOffset = Table.indexOffset
    /\ dec.s.creationTime = Table.creationTime
    /\ BEq(dec.s.data, Table.data)

\* A table of two entries, one of them a delete, was serialized and decoded.
C1_Witness ==
  pc = "decoded" /\ Table.numEntries = W(2) /\ Table.numDeletes = W(1)

\* C2: findOffset(k) for a key k stored in the built table returns an offset
\* other than -1 at which the stored key is exactly k.
C2_LookupStoredKey ==
  (LookedUp /\ look.key \in StoredKeys) =>
    /\ look.kind = "off"
    /\ KeyAt(Table.data, look.off) = look.key

\* C3: findOffset(k) for a key k above every key of a non-empty built table
\* returns -1.
C3_LookupPastEnd ==
  (LookedUp /\ StoredKeys # {} /\ \A k \in StoredKeys : BytesLess(k, look.key)) =>
    look.kind = "minus1"

\* C4: findOffset(k) for a key k below the smallest key of a non-empty built
\* table returns the offset of the first entry record, which holds the
\* smallest key.
C4_LookupBeforeStart ==
  (LookedUp /\ StoredKeys # {} /\ \A k \in StoredKeys : BytesLess(look.key, k)) =>
    /\ look.kind = "off"
    /\ look.off = W(5)
    /\ KeyAt(Table.data, look.off) = iter.entries[1].Key

\* A key below both keys of a two-entry table was looked up.
C4_Witness ==
  /\ LookedUp
  /\ Len(iter.entries) = 2
  /\ look.key # <<>>
  /\ \A k \in StoredKeys : BytesLess(look.key, k)

\* C5: on a buffer of two serialized tables, Deserialize(buf, 0) returns the
\* offset n1 where the second begins, and Deserialize(buf, n1) yields the
\* second table's fields, the data buf[n1 : len(buf)-24], and len(buf).
C5_BackToBack ==
  /\ pc = "decoded first" => dec.outcome = "ok" /\ dec.ret = BLen(cat.first)
  /\ pc = "decoded second" =>
       /\ dec.outcome = "ok"
       /\ dec.s.format = Table.format
       /\ dec.s.numEntries = Table.numEntries
       /\ dec.s.numDeletes = Table.numDeletes
       /\ dec.s.maxKeyLength = Table.maxKeyLength
       /\ dec.s.indexOffset = Table.indexOffset
       /\ dec.s.creationTime = Table.creationTime
       /\ BEq(dec.s.data,
              BDrop(BTake(cat.buf, WSub(BLen(cat.buf), W(24))), cat.n1))
       /\ dec.ret = BLen(cat.buf)

\* C6: Deserialize on serialized bytes without their last byte ends in a
\* reported corrupt-table failure, with no read outside the buffer, no panic
\* and no partly filled table.
C6_TruncatedFailsClosed ==
  pc = "decoded truncated" =>
    /\ dec.outcome = "corrupt table"
    /\ ~dec.oob
    /\ dec.s = ZeroTable

\* C7: a pass of the build loop ends in the ordering panic exactly when the
\* current entry's key is not above the previous entry's key; the panic
\* returns nothing, and a table is returned only for a strictly ascending
\* sequence.
C7_OrderingEnforced ==
  /\ [](Returned => \A i \in 1..Len(iter.entries) : ~OutOfOrderAt(iter.entries, i))
  /\ [](pc = PanicOrder => ret = NotReturned)
  /\ [][ ( /\ pc = "loop"
           /\ IsValid(iter)
           /\ iter'.calls > iter.calls
           /\ ~(iter'.calls = iter.calls + 1 /\ iter'.err # "nil") )
         => (pc' = PanicOrder <=> OutOfOrderAt(iter.entries, iter.pos)) ]_vars

\* The build panicked on an entry whose key equals the key before it.
C7_Witness ==
  /\ pc = PanicOrder
  /\ iter.pos = 2
  /\ iter.entries[2].Key = iter.entries[1].Key

\* C8: once IsValid or Next has reported an error, BuildSSTable has returned
\* that error with a nil table, nil keys and zero versions, and the iterator
\* is not called again.
C8_IteratorFailure ==
  /\ [](iter.err # "nil" =>
          /\ pc = "failed"
          /\ ret = [ table |-> NoTable, smallestKey |-> NilKey, largestKey |-> NilKey,
                     minVersion |-> WZero, maxVersion |-> WZero, err |-> iter.err ])
  /\ [][iter.err # "nil" => iter' = iter]_vars

\* Next reported an error after the first of two entries.
C8_Witness ==
  /\ iter.err = "EIO"
  /\ Len(iter.entries) = 2
  /\ build.numEntries = 1
  /\ iter.calls = 2

\* C9: when BuildSSTable has run to its end, a total encoded size above
\* math.MaxUint32 gives the error "SSTable too big" and no table; a returned
\* table's data fits 32 bits and each offset in its index is the byte
\* position of that entry's record.
C9_CapacityOverflow ==
  (ret.err \in {"nil", "SSTable too big"}) =>
    /\ WLess(MaxUint32, TrueSize(iter.entries)) =>
         ret.err = "SSTable too big" /\ ret.table = NoTable
    /\ Returned =>
         /\ WLeq(BLen(Table.data), MaxUint32)
         /\ \A i \in 1..Len(iter.entries) :
              IndexOffsetField(Table, i) = TrueStart(iter.entries, i)

\* A build ended with the error "SSTable too big".
C9_Witness == ret.err = "SSTable too big" /\ ret.table = NoTable

\* C10 as stated: bytes [1..5) of a returned table's data, little-endian,
\* equal the table's indexOffset.
C10_HeaderIsIndexOffset ==
  Returned => HeaderPointer(Table) = Table.indexOffset

\* C10 amended: bytes [1..5) of a returned table's data, little-endian, equal
\* len(data), the position just past the index region where Serialize puts
\* the footer: indexOffset + numEntries*(maxKeyLength+4).
C10_HeaderIsDataLength ==
  Returned =>
    /\ HeaderPointer(Table) = BLen(Table.data)
    /\ HeaderPointer(Table) =
         WAdd(Table.indexOffset,
              W(WToInt(Table.numEntries) * (WToInt(Table.maxKeyLength) + 4)))

\* A table of two entries was returned.
C10_Witness == Returned /\ Table.numEntries = W(2)
\* The entries of the input whose value has length zero.
EmptyValued(entries) == {i \in 1..Len(entries) : Len(entries[i].Value) = 0}

\* C11: in every table BuildSSTable returned, numEntries is the number of
\* entries the iterator yielded and numDeletes is the number of those whose
\* value has length zero, so numDeletes <= numEntries.
C11_DeleteAccounting ==
  Returned =>
    /\ Table.numEntries = W(Len(iter.entries))
    /\ Table.numDeletes = W(Cardinality(EmptyValued(iter.entries)))
    /\ WLeq(Table.numDeletes, Table.numEntries)

\* A table was returned for two entries, one of them with an empty value.
C11_Witness ==
  /\ Returned
  /\ Len(iter.entries) = 2
  /\ Cardinality(EmptyValued(iter.entries)) = 1
  /\ Table.numDeletes = W(1)
\* The version of a key as the claims define it: MaxUint64 minus the last 8
\* bytes of the key read as a big-endian number (most significant first).
EntryVersion(key) ==
  LET n == Len(key)
  IN  WSub(MaxUint64,
           << key[n] + 256 * key[n - 1], key[n - 2] + 256 * key[n - 3],
              key[n - 4] + 256 * key[n - 5], key[n - 6] + 256 * key[n - 7] >>)

\* C12: when BuildSSTable returned a table for a non-empty input, every
\* entry's version lies within [minVersion, maxVersion] as returned, some
\* entry has version minVersion and some entry has version maxVersion.
C12_VersionBounds ==
  (Returned /\ Len(iter.entries) > 0) =>
    /\ \A i \in 1..Len(iter.entries) :
         /\ WLeq(ret.minVersion, EntryVersion(iter.entries[i].Key))
         /\ WLeq(EntryVersion(iter.entries[i].Key), ret.maxVersion)
    /\ \E i \in 1..Len(iter.entries) :
         EntryVersion(iter.entries[i].Key) = ret.minVersion
    /\ \E i \in 1..Len(iter.entries) :
         EntryVersion(iter.entries[i].Key) = ret.maxVersion
    /\ WLeq(ret.minVersion, ret.maxVersion)

\* A table was returned for two entries of different versions, the second
\* key being longer than its version suffix.
C12_Witness ==
  /\ Returned
  /\ Len(iter.entries) = 2
  /\ WLess(ret.minVersion, ret.maxVersion)
  /\ Len(iter.entries[2].Key) > 8

\* A table was returned whose only entry has version math.MaxUint64.
C12_WitnessOldest ==
  /\ Returned
  /\ Len(iter.entries) = 1
  /\ ret.minVersion = MaxUint64
  /\ ret.maxVersion = MaxUint64
\* Key i of the input followed by zero bytes up to n bytes.
ZeroPadded(key, n) == [j \in 1..n |-> IF j <= Len(key) THEN key[j] ELSE 0]

\* Index record i (from 1) of table s starts at
\* indexOffset + (i-1)*(maxKeyLength+4).
IndexRecordAt(s, i) ==
  WAdd(s.indexOffset, W((i - 1) * (WToInt(s.maxKeyLength) + 4)))

\* At position off, data holds the length-prefixed key and the length prefix
\* of the value of entry e.
EntryRecordAt(data, off, e) ==
  /\ BRead(data, off, 4) = LE32(W(Len(e.Key)))
  /\ BRead(data, WAdd(off, W(4)), Len(e.Key)) = e.Key
  /\ BRead(data, WAdd(off, W(4 + Len(e.Key))), 4) = LE32(BLen(e.Value))

\* C13: in every table BuildSSTable returned, maxKeyLength is the length of
\* the longest key, the index region data[indexOffset:] is numEntries records
\* of maxKeyLength+4 bytes in input order and nothing else, and record i is
\* key i, zero bytes up to maxKeyLength, and the little-endian uint32 position
\* in data where entry i's length-prefixed key/value record starts.
C13_IndexLayout ==
  Returned =>
    /\ Table.maxKeyLength = W(LongestKey(iter.entries))
    /\ Table.numEntries = W(Len(iter.entries))
    /\ Table.indexOffset = TrueStart(iter.entries, Len(iter.entries) + 1)
    /\ BLen(Table.data) =
         WAdd(Table.indexOffset,
              W(Len(iter.entries) * (LongestKey(iter.entries) + 4)))
    /\ \A i \in 1..Len(iter.entries) :
         /\ BRead(Table.data, IndexRecordAt(Table, i), LongestKey(iter.entries))
              = ZeroPadded(iter.entries[i].Key, LongestKey(iter.entries))
         /\ BRead(Table.data,
                  WAdd(IndexRecordAt(Table, i), W(LongestKey(iter.entries))), 4)
              = LE32(TrueStart(iter.entries, i))
         /\ EntryRecordAt(Table.data, TrueStart(iter.entries, i), iter.entries[i])

\* A table was returned whose first key is shorter than its second, built in
\* a buffer whose capacity held the first index record's key and padding: the
\* padding was obtained by re-slicing.
C13_Witness ==
  /\ Returned
  /\ Len(iter.entries) = 2
  /\ Len(iter.entries[1].Key) < Len(iter.entries[2].Key)
  /\ build.cap.known
  /\ WLeq(WAdd(Table.indexOffset, Table.maxKeyLength), build.cap.n)

\* A table was returned whose first index record was padded by appending:
\* the buffer held the key of that record but not its padding.
C13_WitnessAppended ==
  /\ Returned
  /\ Len(iter.entries) = 2
  /\ Len(iter.entries[1].Key) < Len(iter.entries[2].Key)
  /\ build.cap.known
  /\ build.cap.n = WAdd(Table.indexOffset, W(Len(iter.entries[1].Key)))

\* A table was returned whose buffer outgrew its capacity before the index
\* was written, with a padded index record.
C13_WitnessGrown ==
  /\ Returned
  /\ ~build.cap.known
  /\ PaddedEntries(build) # {}
\* The index record the last findOffset call read its result from: record
\* high of lines 213-215, as a byte position in data.
ResultRecord == RecordStart(Table, SearchLoop(Table, look.key, 0, WToInt(Table.numEntries) - 1))

\* The result of the last findOffset call is -1 or the start of an entry
\* record, read from a record of the index region.
InRange ==
  /\ look.kind \in {"minus1", "off"}
  /\ look.kind = "off" =>
       /\ WLeq(W(5), look.off) /\ WLess(look.off, Table.indexOffset)
       /\ \E i \in 1..Len(iter.entries) : look.off = TrueStart(iter.entries, i)
       /\ WLeq(Table.indexOffset, ResultRecord)
       /\ WLeq(WAdd(ResultRecord, W(WToInt(Table.maxKeyLength) + 4)), BLen(Table.data))

\* C14: for every table BuildSSTable returned and every lookup key,
\* findOffset reads only the index region and returns -1 or the start of an
\* entry record, a value o with 5 <= o < indexOffset; on the table built from
\* an empty iterator it returns -1 for every key.
C14_FindOffsetRange ==
  LookedUp =>
    /\ InRange
    /\ Len(iter.entries) = 0 => look.kind = "minus1"

\* The same for the tables that hold an entry.
C14_NonEmptyTableRange ==
  (LookedUp /\ Len(iter.entries) > 0) => InRange

\* The same on the empty table for the keys that are not empty.
C14_EmptyTableKeyed ==
  (LookedUp /\ Len(iter.entries) = 0 /\ look.key # <<>>) => look.kind = "minus1"

\* findOffset of the empty key on the table built from an empty iterator
\* returned 5, the header pointer.
C14_EmptyTableEmptyKey ==
  /\ LookedUp
  /\ Len(iter.entries) = 0
  /\ look.key = <<>>
  /\ look.kind = "off"
  /\ look.off = W(5)
====
